---- MODULE Spec2Model ----
(***************************************************************************)
(* A model of uploader.py: the plugin auto-uploader.                      *)
(*                                                                         *)
(* Threads of the program:                                                 *)
(*   main      the __main__ block (and manual_upload in manual mode)       *)
(*   watcher   start_watcher (auto mode)                                   *)
(*   listener  listen_for_exit (auto mode)                                 *)
(*   observer  the worker of watchdog's Observer, which takes file-system  *)
(*             events from its queue one at a time and calls               *)
(*             WatcherHandler.on_modified on that same worker              *)
(* upload_plugin runs on the thread that calls it: "main" (manual_upload)  *)
(* or "observer" (on_modified).                                            *)
(***************************************************************************)
EXTENDS Integers, Sequences, FiniteSets, Bags, TLC

\* ---------------------------------------------------------------- bounds
\* console lines the user types in one run
MaxInputs == 3
\* file-system events the watched directory produces in one run
MaxEvents == 3
\* events waiting in the observer's queue
MaxQueue == 2

\* ------------------------------------------------------------- strings
\* str.lower() on the letters the console commands use
LowerChar(c) ==
    CASE c = "U" -> "u" [] c = "P" -> "p" [] c = "L" -> "l" [] c = "O" -> "o"
      [] c = "A" -> "a" [] c = "D" -> "d" [] c = "E" -> "e" [] c = "X" -> "x"
      [] c = "I" -> "i" [] c = "T" -> "t" [] OTHER -> c

RECURSIVE lower(_)
lower(s) ==
    IF Len(s) = 0 THEN ""
    ELSE LowerChar(SubSeq(s, 1, 1)) \o lower(SubSeq(s, 2, Len(s)))

\* str.endswith(suffix)
endswith(s, suffix) ==
    /\ Len(s) >= Len(suffix)
    /\ SubSeq(s, Len(s) - Len(suffix) + 1, Len(s)) = suffix

\* ------------------------------------------------------ inputs (bounded)
\* lines typed at a prompt
Commands == {"upload", "UpLoad", "exit", "EXIT", "uploads"}

\* the documents load_config can return, as far as the program reads them
UploadMethods == {"ftp", "sftp", "FTP"}
\* sftp_config.get("private_key_file"): None when the key is absent
None == "None"
PrivateKeyFiles == {None, "", "/path/to/private/key"}
\* the key file varies where the program reads it, under method sftp
Configs ==
    { c \in [auto_upload : BOOLEAN, upload_method : UploadMethods,
             private_key_file : PrivateKeyFiles] :
        c.upload_method # "sftp" => c.private_key_file = None }

\* events watchdog delivers to the handler
EventTypes == {"modified", "created"}
FsEvents ==
    { [event_type |-> "modified", is_directory |-> FALSE, src_path |-> "plugin.py"],
      [event_type |-> "modified", is_directory |-> FALSE, src_path |-> "py.txt"],
      [event_type |-> "modified", is_directory |-> TRUE,  src_path |-> "pkg.py"],
      [event_type |-> "created",  is_directory |-> FALSE, src_path |-> "new.py"] }

\* the threads that can run upload_plugin
Runners == {"main", "observer"}

VARIABLES
    config,       \* the configuration record, read-only after load
    mainPc,       \* position of the main flow
    watcherPc,    \* position of start_watcher
    listenerPc,   \* position of listen_for_exit
    stop_event,   \* threading.Event shared by listener and watcher
    obsState,     \* the Observer's worker: "none", "running", "dead"
    obsQueue,     \* the Observer's event queue
    up,           \* per runner: position in upload_plugin and what it did
    scratch,      \* the file at zip_path: "absent", "partial", "complete"
    lastCmd,      \* the last line read from the console
    count,        \* history counters of the run
    store,        \* CONFIG_FILE and what load_config did with it
    arch          \* a source tree and the archive create_zip_from_dir wrote

\* the state the program's run (Spec) leaves alone: it belongs to the
\* specifications of load_config and of create_zip_from_dir
bench == <<store, arch>>

vars == <<config, mainPc, watcherPc, listenerPc, stop_event, obsState,
          obsQueue, up, scratch, lastCmd, count, bench>>


\* ------------------------------------------------------------ helpers
\* s up to and including its first occurrence of x; all of s when x is absent
RECURSIVE UpTo(_, _)
UpTo(s, x) ==
    IF s = <<>> THEN <<>>
    ELSE IF Head(s) = x THEN <<x>>
    ELSE <<Head(s)>> \o UpTo(Tail(s), x)

Last(s) == s[Len(s)]

\* what a runner holds before its first transport call
NoXfer ==
    [method |-> "none", outcome |-> "none", ops |-> <<>>,
     transport_open |-> FALSE, session_open |-> FALSE, raised |-> FALSE]

\* a runner that has not called upload_plugin yet
IdleRunner == [pc |-> "idle", steps |-> <<>>, xfer |-> NoXfer]

\* a runner is inside upload_plugin
InProgress(t) == up[t].pc \in {"zip", "dispatch", "remove", "log"}

\* ------------------------------------------------- create_zip_from_dir
\* How the call can end: it returns, ZipFile(zip_name, 'w') raises before the
\* file is created, or zipf.write raises after it was (the with block closes
\* the archive and the exception leaves the function).
ZipOutcomes == {"ok", "open_fail", "write_fail"}

\* the file at zip_name after the call; mode 'w' truncates what was there
create_zip_from_dir(before, outcome) ==
    CASE outcome = "ok" -> "complete"
      [] outcome = "write_fail" -> "partial"
      [] OTHER -> before

\* ---------------------------------------------------------- upload_ftp
FtpSteps == <<"connect", "login", "cwd", "stor">>
\* the step that raises, or "ok"
FtpOutcomes == {"ok", "connect", "login", "cwd", "stor"}

\* x occurs in the sequence s
Has(s, x) == \E i \in 1..Len(s) : s[i] = x

\* the FTP connection exists once connect has returned, until it is closed
FtpConnected(ops, outcome) ==
    Has(ops, "connect") /\ outcome # "connect" /\ ~Has(ops, "close")

\* leaving "with ftplib.FTP() as ftp" (line 65) closes the connection if
\* connect had opened one, on the normal path and when a step raised
FtpWithExit(ops, outcome) ==
    IF FtpConnected(ops, outcome) THEN ops \o <<"close">> ELSE ops

\* upload_ftp without its try/except: a failed step raises to the caller
upload_ftp_uncaught(outcome) ==
    LET ops == FtpWithExit(UpTo(FtpSteps, outcome), outcome)
    IN  [method |-> "ftp", outcome |-> outcome, ops |-> ops,
         transport_open |-> FtpConnected(ops, outcome),
         session_open |-> FALSE, raised |-> outcome # "ok"]

\* upload_ftp with the close as the last statement of the try block, the way
\* upload_sftp closes
upload_ftp_close_in_try(outcome) ==
    LET run == UpTo(FtpSteps, outcome)
        ops == IF outcome = "ok" THEN run \o <<"close">> ELSE run
    IN  [method |-> "ftp", outcome |-> outcome,
         ops |-> ops \o (IF outcome = "ok" THEN <<"log_info">>
                         ELSE <<"log_error">>),
         transport_open |-> FtpConnected(ops, outcome),
         session_open |-> FALSE, raised |-> FALSE]

\* upload_ftp(config, zip_path): the steps run in order inside
\* "with ftplib.FTP() as ftp", the first failure leaves the with block, which
\* closes the connection, and "except Exception" logs it
upload_ftp(outcome) ==
    LET ops == FtpWithExit(UpTo(FtpSteps, outcome), outcome)
    IN  [method |-> "ftp", outcome |-> outcome,
         ops |-> ops \o (IF outcome = "ok" THEN <<"log_info">>
                         ELSE <<"log_error">>),
         transport_open |-> FtpConnected(ops, outcome),
         session_open |-> FALSE, raised |-> FALSE]

\* --------------------------------------------------------- upload_sftp
\* sftp_config.get("private_key_file") is truthy
KeyConfigured(cfg) == cfg.private_key_file \notin {None, ""}

SftpSteps(cfg) ==
    <<"transport">>
    \o (IF KeyConfigured(cfg) THEN <<"load_key", "auth_key">>
        ELSE <<"auth_password">>)
    \o <<"open_sftp", "put", "close_sftp", "close_transport">>

\* the step that raises, or "ok"
SftpOutcomes(cfg) ==
    {"ok", "transport", "open_sftp", "put"}
    \cup (IF KeyConfigured(cfg) THEN {"load_key", "auth_key"}
          ELSE {"auth_password"})

\* upload_sftp trying the password after a key that failed to load or to
\* authenticate
upload_sftp_fallback(cfg, outcome) ==
    LET run == UpTo(SftpSteps(cfg), outcome)
        done == IF outcome \in {"load_key", "auth_key"}
                THEN run \o <<"auth_password">> ELSE run
    IN  [method |-> "sftp", outcome |-> outcome,
         ops |-> done
                 \o (IF outcome = "ok" THEN <<"log_info">> ELSE <<"log_error">>),
         transport_open |-> outcome # "transport" /\ ~Has(done, "close_transport"),
         session_open |-> FALSE,
         raised |-> FALSE]

\* upload_sftp(config, zip_path): the closes are the last statements of the
\* try block, so they run only when nothing before them raised
upload_sftp(cfg, outcome) ==
    LET done == UpTo(SftpSteps(cfg), outcome)
        has(x) == Has(done, x)
    IN  [method |-> "sftp", outcome |-> outcome,
         ops |-> done
                 \o (IF outcome = "ok" THEN <<"log_info">> ELSE <<"log_error">>),
         transport_open |-> outcome # "transport" /\ ~has("close_transport"),
         session_open |-> has("open_sftp") /\ outcome # "open_sftp"
                          /\ ~has("close_sftp"),
         raised |-> FALSE]

\* ------------------------------------------------------- upload_plugin
\* a dispatch with a plain else: whatever is not sftp goes to FTP
Transport_ElseFtp(method) ==
    IF method = "sftp" THEN "sftp" ELSE "ftp"

\* the branch upload_plugin takes on config["upload_method"]
Transport(method) ==
    IF method = "ftp" THEN "ftp"
    ELSE IF method = "sftp" THEN "sftp"
    ELSE "none"

\* an exception leaves upload_plugin on runner t: in manual mode it leaves
\* manual_upload and the main flow with it; in auto mode it leaves
\* on_modified and ends the observer's worker
Raise(t) ==
    /\ mainPc' = IF t = "main" THEN "crashed" ELSE mainPc
    /\ obsState' = IF t = "observer" THEN "dead" ELSE obsState

\* upload_plugin line 98: create_zip_from_dir(config["plugin_dir"], zip_path)
UploadZip(t) ==
    /\ up[t].pc = "zip"
    /\ \E outcome \in ZipOutcomes :
         /\ scratch' = create_zip_from_dir(scratch, outcome)
         /\ IF outcome = "ok"
            THEN /\ up' = [up EXCEPT ![t].pc = "dispatch",
                                     ![t].steps = @ \o <<"zip">>]
                 /\ UNCHANGED <<mainPc, obsState>>
            ELSE /\ up' = [up EXCEPT ![t].pc = "aborted"]
                 /\ Raise(t)
    /\ UNCHANGED <<bench, config, watcherPc, listenerPc, stop_event, obsQueue,
                   lastCmd, count>>

\* after a transport call on runner t
AfterTransport(t, x) ==
    /\ IF x.raised
       THEN /\ up' = [up EXCEPT ![t].pc = "aborted", ![t].xfer = x,
                                ![t].steps = @ \o <<x.method>>]
            /\ Raise(t)
       ELSE /\ up' = [up EXCEPT ![t].pc = "remove", ![t].xfer = x,
                                ![t].steps = @ \o <<x.method>>]
            /\ UNCHANGED <<mainPc, obsState>>
    /\ UNCHANGED <<bench, config, watcherPc, listenerPc, stop_event, obsQueue,
                   scratch, lastCmd, count>>

\* upload_plugin lines 101-102
UploadFtp(t) ==
    /\ up[t].pc = "dispatch"
    /\ Transport(config.upload_method) = "ftp"
    /\ \E outcome \in FtpOutcomes : AfterTransport(t, upload_ftp(outcome))

\* upload_plugin lines 103-104
UploadSftp(t) ==
    /\ up[t].pc = "dispatch"
    /\ Transport(config.upload_method) = "sftp"
    /\ \E outcome \in SftpOutcomes(config) :
         AfterTransport(t, upload_sftp(config, outcome))

\* upload_plugin lines 105-106
UploadInvalidMethod(t) ==
    /\ up[t].pc = "dispatch"
    /\ Transport(config.upload_method) = "none"
    /\ up' = [up EXCEPT ![t].pc = "remove",
                        ![t].steps = @ \o <<"log_invalid_method">>]
    /\ UNCHANGED <<bench, config, mainPc, watcherPc, listenerPc, stop_event,
                   obsState, obsQueue, scratch, lastCmd, count>>

\* os.remove(zip_path) inside try/except: the file is gone, or the failure is
\* logged as a warning and the file stays as it was
RemoveOutcomes(file) == IF file = "absent" THEN {"failed"} ELSE {"ok", "failed"}

\* a cleanup that logs but never deletes
remove_scratch_keeps(file, outcome) ==
    [file |-> file,
     step |-> IF outcome = "ok" THEN "remove" ELSE "remove_failed"]

remove_scratch(file, outcome) ==
    [file |-> IF outcome = "ok" THEN "absent" ELSE file,
     step |-> IF outcome = "ok" THEN "remove" ELSE "remove_failed"]

\* upload_plugin lines 107-110
UploadRemove(t) ==
    /\ up[t].pc = "remove"
    /\ \E outcome \in RemoveOutcomes(scratch) :
         LET r == remove_scratch(scratch, outcome)
         IN  /\ scratch' = r.file
             /\ up' = [up EXCEPT ![t].pc = "log", ![t].steps = @ \o <<r.step>>]
    /\ UNCHANGED <<bench, config, mainPc, watcherPc, listenerPc, stop_event,
                   obsState, obsQueue, lastCmd, count>>

\* upload_plugin line 111, and the return to the caller: manual_upload goes
\* back to its prompt, on_modified returns to the observer's worker
UploadLog(t) ==
    /\ up[t].pc = "log"
    /\ up' = [up EXCEPT ![t].pc = "idle", ![t].steps = @ \o <<"log_reloaded">>]
    /\ count' = [count EXCEPT !.completed[t] = @ + 1]
    /\ mainPc' = IF t = "main" THEN "prompt" ELSE mainPc
    /\ UNCHANGED <<bench, config, watcherPc, listenerPc, stop_event, obsState,
                   obsQueue, scratch, lastCmd>>

\* arch while the program runs (the run keeps the archive as scratch)
NoArch == <<>>

\* a caller on runner t enters upload_plugin
EnterUpload(t) ==
    [up EXCEPT ![t] = [pc |-> "zip", steps |-> <<>>, xfer |-> NoXfer]]


\* ------------------------------------------------------ WatcherHandler
\* on_modified without the is_directory test
on_modified_any_kind(event) == endswith(event.src_path, ".py")

\* on_modified(event): whether it calls upload_plugin
on_modified(event) ==
    IF event.is_directory THEN FALSE
    ELSE endswith(event.src_path, ".py")

\* FileSystemEventHandler.dispatch: on_modified is the only method the
\* handler overrides, and it receives the modification events only
HandlerUploads(event) ==
    event.event_type = "modified" /\ on_modified(event)

\* the watched directory changes: the subscription puts an event on the
\* observer's queue (the events here are those the queue hands to the worker)
FsEvent ==
    /\ obsState = "running"
    /\ count.events < MaxEvents
    /\ Len(obsQueue) < MaxQueue
    /\ \E e \in FsEvents : obsQueue' = Append(obsQueue, e)
    /\ count' = [count EXCEPT !.events = @ + 1]
    /\ UNCHANGED <<bench, config, mainPc, watcherPc, listenerPc, stop_event,
                   obsState, up, scratch, lastCmd>>

\* an observer that hands every event to a fresh call of the handler, without
\* waiting for the call in progress to return
ObserverDispatch_Reentrant ==
    /\ obsState = "running"
    /\ obsQueue # <<>>
    /\ obsQueue' = Tail(obsQueue)
    /\ IF HandlerUploads(Head(obsQueue))
       THEN /\ up' = EnterUpload("observer")
            /\ count' = [count EXCEPT !.started["observer"] = @ + 1]
       ELSE UNCHANGED <<up, count>>
    /\ UNCHANGED <<bench, config, mainPc, watcherPc, listenerPc, stop_event,
                   obsState, scratch, lastCmd>>

\* the observer's worker takes the next event and calls the handler; the
\* call to upload_plugin is synchronous, so the worker takes no other event
\* until it has returned
ObserverDispatch ==
    /\ obsState = "running"
    /\ up["observer"].pc = "idle"
    /\ obsQueue # <<>>
    /\ obsQueue' = Tail(obsQueue)
    /\ IF HandlerUploads(Head(obsQueue))
       THEN /\ up' = EnterUpload("observer")
            /\ count' = [count EXCEPT !.started["observer"] = @ + 1]
       ELSE UNCHANGED <<up, count>>
    /\ UNCHANGED <<bench, config, mainPc, watcherPc, listenerPc, stop_event,
                   obsState, scratch, lastCmd>>

\* ------------------------------------------------------- start_watcher
\* lines 125-128: the observer is scheduled on plugin_dir and started
WatcherSetup ==
    /\ watcherPc = "setup"
    /\ watcherPc' = "poll"
    /\ obsState' = "running"
    /\ UNCHANGED <<bench, config, mainPc, listenerPc, stop_event, obsQueue,
                   up, scratch, lastCmd, count>>

\* lines 130-132: the poll loop ends when it sees stop_event set.  The
\* except branch (observer.stop()) needs a KeyboardInterrupt raised in this
\* thread; Python raises it in the main thread only and start_watcher runs
\* on watcher_thread, so the loop has this one exit.
WatcherPoll ==
    /\ watcherPc = "poll"
    /\ stop_event
    /\ watcherPc' = "join"
    /\ UNCHANGED <<bench, config, mainPc, listenerPc, stop_event, obsState,
                   obsQueue, up, scratch, lastCmd, count>>

\* observer.join() returns once the observer's worker has ended
JoinReturns(state) == state # "running"

\* line 136
WatcherJoin ==
    /\ watcherPc = "join"
    /\ JoinReturns(obsState)
    /\ watcherPc' = "done"
    /\ UNCHANGED <<bench, config, mainPc, listenerPc, stop_event, obsState,
                   obsQueue, up, scratch, lastCmd, count>>

\* ----------------------------------------------------- listen_for_exit
\* listen_for_exit comparing the line as typed, without lower()
IsExit_as_typed(cmd) == cmd = "exit"

\* command.lower() == "exit"
IsExit(cmd) == lower(cmd) = "exit"

\* lines 151-155
ListenerInput ==
    /\ listenerPc = "input"
    /\ count.inputs < MaxInputs
    /\ \E cmd \in Commands :
         /\ lastCmd' = cmd
         /\ IF IsExit(cmd)
            THEN stop_event' = TRUE /\ listenerPc' = "done"
            ELSE UNCHANGED <<stop_event, listenerPc>>
    /\ count' = [count EXCEPT !.inputs = @ + 1]
    /\ UNCHANGED <<bench, config, mainPc, watcherPc, obsState, obsQueue, up,
                   scratch>>

\* ------------------------------------------------------- manual_upload
\* manual_upload comparing the line as typed, without lower()
manual_command_as_typed(cmd) ==
    IF cmd = "upload" THEN "upload"
    ELSE IF cmd = "exit" THEN "exit"
    ELSE "invalid"

\* the branch manual_upload takes on a line
manual_command(cmd) ==
    IF lower(cmd) = "upload" THEN "upload"
    ELSE IF lower(cmd) = "exit" THEN "exit"
    ELSE "invalid"

\* lines 140-147: one pass of the loop up to the call of upload_plugin, the
\* break, or the message for an invalid command
ManualInput ==
    /\ mainPc = "prompt"
    /\ count.inputs < MaxInputs
    /\ \E cmd \in Commands :
         /\ lastCmd' = cmd
         /\ CASE manual_command(cmd) = "upload" ->
                   /\ mainPc' = "upload"
                   /\ up' = EnterUpload("main")
                   /\ count' = [count EXCEPT !.inputs = @ + 1,
                                             !.started["main"] = @ + 1]
              [] manual_command(cmd) = "exit" ->
                   /\ mainPc' = "done"
                   /\ count' = [count EXCEPT !.inputs = @ + 1]
                   /\ UNCHANGED up
              [] OTHER ->
                   /\ count' = [count EXCEPT !.inputs = @ + 1,
                                             !.invalid = @ + 1]
                   /\ UNCHANGED <<mainPc, up>>
    /\ UNCHANGED <<bench, config, watcherPc, listenerPc, stop_event, obsState,
                   obsQueue, scratch>>

\* ------------------------------------------------------------ __main__
\* a main flow that ignores the flag
Mode_AlwaysAuto(cfg) == "auto"

\* line 163: the branch on config["auto_upload"]
Mode(cfg) == IF cfg.auto_upload THEN "auto" ELSE "manual"

MainBranch ==
    /\ mainPc = "start"
    /\ mainPc' = IF Mode(config) = "auto" THEN "start_watcher" ELSE "prompt"
    /\ UNCHANGED <<bench, config, watcherPc, listenerPc, stop_event, obsState,
                   obsQueue, up, scratch, lastCmd, count>>

\* lines 167-168
MainStartWatcher ==
    /\ mainPc = "start_watcher"
    /\ mainPc' = "start_listener"
    /\ watcherPc' = "setup"
    /\ UNCHANGED <<bench, config, listenerPc, stop_event, obsState, obsQueue,
                   up, scratch, lastCmd, count>>

\* a main flow that runs manual_upload after starting the two threads
MainStartListener_ThenManual ==
    /\ mainPc = "start_listener"
    /\ mainPc' = "prompt"
    /\ listenerPc' = "input"
    /\ UNCHANGED <<bench, config, watcherPc, stop_event, obsState, obsQueue,
                   up, scratch, lastCmd, count>>

\* lines 171-172
MainStartListener ==
    /\ mainPc = "start_listener"
    /\ mainPc' = "join_exit"
    /\ listenerPc' = "input"
    /\ UNCHANGED <<bench, config, watcherPc, stop_event, obsState, obsQueue,
                   up, scratch, lastCmd, count>>

\* line 175: exit_thread.join()
MainJoinExit ==
    /\ mainPc = "join_exit"
    /\ listenerPc = "done"
    /\ mainPc' = "join_watcher"
    /\ UNCHANGED <<bench, config, watcherPc, listenerPc, stop_event, obsState,
                   obsQueue, up, scratch, lastCmd, count>>

\* lines 178-180: watcher_thread.join(), then the exit is logged
MainJoinWatcher ==
    /\ mainPc = "join_watcher"
    /\ watcherPc = "done"
    /\ mainPc' = "done"
    /\ UNCHANGED <<bench, config, watcherPc, listenerPc, stop_event, obsState,
                   obsQueue, up, scratch, lastCmd, count>>

\* an external interrupt (SIGINT) in auto mode: KeyboardInterrupt is raised
\* in the main thread, which is waiting in one of its joins; it ends the
\* main flow and reaches no other thread
Interrupt ==
    /\ mainPc \in {"join_exit", "join_watcher"}
    /\ mainPc' = "interrupted"
    /\ UNCHANGED <<bench, config, watcherPc, listenerPc, stop_event, obsState,
                   obsQueue, up, scratch, lastCmd, count>>

\* --------------------------------------------------------- load_config
\* loads of the configuration in one run of the loader's specification
MaxLoads == 3

\* A Python value of a configuration: its type and its repr.  A JSON
\* document is the map from its keys to the JSON text of their values.
PyBool(b) == [kind |-> "bool", text |-> IF b THEN "True" ELSE "False"]
PyInt(digits) == [kind |-> "int", text |-> digits]
PyStr(chars) == [kind |-> "str", text |-> chars]

\* json.dump of one value
JsonDumpValue(v) ==
    CASE v.kind = "bool" -> (IF v.text = "True" THEN "true" ELSE "false")
      [] v.kind = "int" -> v.text
      [] OTHER -> "\"" \o v.text \o "\""

\* json.load of one value
JsonLoadValue(tok) ==
    IF tok = "true" THEN PyBool(TRUE)
    ELSE IF tok = "false" THEN PyBool(FALSE)
    ELSE IF Len(tok) >= 2 /\ SubSeq(tok, 1, 1) = "\""
         THEN PyStr(SubSeq(tok, 2, Len(tok) - 1))
    ELSE PyInt(tok)

\* json.dump(d, f, indent=4) and json.load(f) of a dict
JsonDump(d) == [k \in DOMAIN d |-> JsonDumpValue(d[k])]
JsonLoad(text) == [k \in DOMAIN text |-> JsonLoadValue(text[k])]

\* DEFAULT_CONFIG, with the nested blocks flattened to the keys below
DEFAULT_CONFIG ==
    [plugin_name |-> PyStr("your_plugin_name.zip"),
     auto_upload |-> PyBool(TRUE),
     upload_method |-> PyStr("ftp"),
     ftp_port |-> PyInt("21")]

\* the documents a user may have stored: any subset of the keys, no schema
ConfigKeys == DOMAIN DEFAULT_CONFIG
ConfigValues ==
    {PyBool(TRUE), PyBool(FALSE), PyStr("ftp"), PyStr("true"), PyInt("21")}
StoredConfigs == UNION { [K -> ConfigValues] : K \in SUBSET ConfigKeys }

\* CONFIG_FILE: missing, a JSON document, or text json.load cannot parse
NoFile == [exists |-> FALSE, valid |-> FALSE, text |-> <<>>]
JsonFile(text) == [exists |-> TRUE, valid |-> TRUE, text |-> text]
BrokenFile == [exists |-> TRUE, valid |-> FALSE, text |-> <<>>]

\* the loader before its first call on file f that holds the document d
\* (d is kept to compare what load_config returns with what was stored)
NewStore(f, d) ==
    [file |-> f, initial |-> f, origin |-> d, returned |-> <<>>,
     writes |-> 0, raised |-> FALSE]

\* store while the program runs (the run reads config, not the file)
NoStore == NewStore(NoFile, <<>>)

\* load_config that returns the defaults without writing them
load_config_no_write(st) ==
    IF ~st.file.exists
    THEN [st EXCEPT !.returned = Append(@, DEFAULT_CONFIG)]
    ELSE IF ~st.file.valid THEN [st EXCEPT !.raised = TRUE]
    ELSE [st EXCEPT !.returned = Append(@, JsonLoad(st.file.text))]

\* load_config that fills the keys a stored document lacks from the defaults
load_config_merge(st) ==
    IF ~st.file.exists
    THEN [st EXCEPT !.file = JsonFile(JsonDump(DEFAULT_CONFIG)),
                    !.writes = @ + 1,
                    !.returned = Append(@, DEFAULT_CONFIG)]
    ELSE IF ~st.file.valid THEN [st EXCEPT !.raised = TRUE]
    ELSE LET d == JsonLoad(st.file.text)
         IN  [st EXCEPT !.returned =
                 Append(@, [k \in ConfigKeys |->
                              IF k \in DOMAIN d THEN d[k]
                              ELSE DEFAULT_CONFIG[k]])]

\* load_config(): lines 44-52
load_config(st) ==
    IF ~st.file.exists
    THEN [st EXCEPT !.file = JsonFile(JsonDump(DEFAULT_CONFIG)),
                    !.writes = @ + 1,
                    !.returned = Append(@, DEFAULT_CONFIG)]
    ELSE IF ~st.file.valid THEN [st EXCEPT !.raised = TRUE]
    ELSE [st EXCEPT !.returned = Append(@, JsonLoad(st.file.text))]

\* -------------------------------------------------------- specification
Init ==
    /\ config \in Configs
    /\ mainPc = "start"
    /\ watcherPc = "unstarted"
    /\ listenerPc = "unstarted"
    /\ stop_event = FALSE
    /\ obsState = "none"
    /\ obsQueue = <<>>
    /\ up = [t \in Runners |-> IdleRunner]
    /\ scratch = "absent"
    /\ lastCmd = ""
    /\ count = [inputs |-> 0, events |-> 0, invalid |-> 0,
                started |-> [t \in Runners |-> 0],
                completed |-> [t \in Runners |-> 0]]
    /\ store = NoStore
    /\ arch = NoArch

\* the steps of upload_plugin on runner t
UploadStep(t) ==
    \/ UploadZip(t)
    \/ UploadFtp(t)
    \/ UploadSftp(t)
    \/ UploadInvalidMethod(t)
    \/ UploadRemove(t)
    \/ UploadLog(t)

MainStep ==
    \/ MainBranch
    \/ MainStartWatcher
    \/ MainStartListener
    \/ MainJoinExit
    \/ MainJoinWatcher
    \/ UploadStep("main")

WatcherStep == WatcherSetup \/ WatcherPoll \/ WatcherJoin

ObserverStep == ObserverDispatch \/ UploadStep("observer")

\* what the user and the file system do
Environment == ManualInput \/ ListenerInput \/ FsEvent \/ Interrupt

Next == MainStep \/ WatcherStep \/ ObserverStep \/ Environment

Spec == Init /\ [][Next]_vars

\* every thread of the program that can take a step eventually takes one;
\* nothing is assumed of the user or the file system
FairSpec ==
    Spec /\ WF_vars(MainStep) /\ WF_vars(WatcherStep) /\ WF_vars(ObserverStep)


\* ------------------------------------------- specification: load_config
\* the program's own state, at rest, in the specifications of one function
ProgramAtRest ==
    /\ config = [auto_upload |-> TRUE, upload_method |-> "ftp",
                 private_key_file |-> None]
    /\ mainPc = "start"
    /\ watcherPc = "unstarted"
    /\ listenerPc = "unstarted"
    /\ stop_event = FALSE
    /\ obsState = "none"
    /\ obsQueue = <<>>
    /\ up = [t \in Runners |-> IdleRunner]
    /\ scratch = "absent"
    /\ lastCmd = ""
    /\ count = [inputs |-> 0, events |-> 0, invalid |-> 0,
                started |-> [t \in Runners |-> 0],
                completed |-> [t \in Runners |-> 0]]

program == <<config, mainPc, watcherPc, listenerPc, stop_event, obsState,
             obsQueue, up, scratch, lastCmd, count>>

\* CONFIG_FILE is missing, unparsable, or holds a stored document
ConfigInit ==
    /\ ProgramAtRest
    /\ arch = NoArch
    /\ \/ store = NewStore(NoFile, <<>>)
       \/ store = NewStore(BrokenFile, <<>>)
       \/ \E d \in StoredConfigs : store = NewStore(JsonFile(JsonDump(d)), d)

\* one call of load_config; a parse failure is fatal (the program loads once,
\* the calls after the first stand for further runs on the same file)
LoadConfig ==
    /\ ~store.raised
    /\ Len(store.returned) < MaxLoads
    /\ store' = load_config(store)
    /\ UNCHANGED <<program, arch>>

ConfigNext == LoadConfig

ConfigSpec == ConfigInit /\ [][ConfigNext]_vars

\* ----------------------------------- specification: create_zip_from_dir
\* runs of the archiver in one run of its specification
MaxRuns == 2

\* A path is the sequence of its components.  The source directory, and the
\* files and directories that may exist under it (the same file name at three
\* depths, a directory that holds no file).
directory == <<"plugin">>
FilePaths ==
    {<<"plugin", "a.py">>, <<"plugin", "b.txt">>, <<"plugin", "pkg", "a.py">>,
     <<"plugin", "pkg", "sub", "a.py">>}
DirPaths ==
    {<<"plugin", "pkg">>, <<"plugin", "pkg", "sub">>, <<"plugin", "empty">>}

\* os.path.dirname, os.path.basename, os.path.join(root, name)
dirname(path) == SubSeq(path, 1, Len(path) - 1)
basename(path) == path[Len(path)]
join(root, name) == Append(root, name)

\* os.path.relpath(path, start) for a path under start
relpath(path, start) == SubSeq(path, Len(start) + 1, Len(path))

\* the files and directories of a tree
Nodes(t) == t.files \cup t.dirs

\* the trees a filesystem can hold: every node's parent directory exists
Trees ==
    {t \in [files : SUBSET FilePaths, dirs : SUBSET DirPaths] :
        \A n \in Nodes(t) :
            dirname(n) = directory \/ dirname(n) \in t.dirs}

\* one step of os.walk: the (root, dirs, files) triple of a directory
Listing(t, root) ==
    [root |-> root,
     dirs |-> {basename(d) : d \in {n \in t.dirs : dirname(n) = root}},
     files |-> {basename(f) : f \in {n \in t.files : dirname(n) = root}}]

\* os.walk(top): the triple of top and of every directory below it
RECURSIVE os_walk(_, _)
os_walk(t, top) ==
    LET here == Listing(t, top)
    IN  {here} \cup UNION {os_walk(t, join(top, d)) : d \in here.dirs}

\* the file at the output path: missing, or a ZIP file with a bag of entries
NoZip == [exists |-> FALSE, entries |-> EmptyBag]
Zip(entries) == [exists |-> TRUE, entries |-> entries]

\* zipfile.ZipFile(zip_name, mode): 'w' truncates, 'a' keeps the entries
ZipFile(previous, mode) ==
    IF mode = "a" /\ previous.exists THEN previous ELSE Zip(EmptyBag)

\* zipf.write(filename, arcname): one more entry named arcname
zipf_write(zipf, arcname) ==
    Zip(zipf.entries (+) SetToBag({arcname}))

\* the loops at lines 57-59 over the triples of os.walk and their files
RECURSIVE WriteFiles(_, _, _)
WriteFiles(zipf, files, start) ==
    IF files = {} THEN zipf
    ELSE LET f == CHOOSE f \in files : TRUE
         IN  WriteFiles(zipf_write(zipf, relpath(f, start)), files \ {f},
                        start)

WalkedFiles(t, top) ==
    UNION {{join(w.root, f) : f \in w.files} : w \in os_walk(t, top)}

\* create_zip_from_dir that opens the output in append mode
zip_entries_append(t, top, previous) ==
    WriteFiles(ZipFile(previous, "a"), WalkedFiles(t, top), top)

\* create_zip_from_dir(directory, zip_name) on tree t, by the entries written
zip_entries(t, top, previous) ==
    WriteFiles(ZipFile(previous, "w"), WalkedFiles(t, top), top)

\* a source tree, and no file or a stale archive at the output path
ArchInit ==
    /\ ProgramAtRest
    /\ store = NoStore
    /\ \E t \in Trees :
       \E z \in {NoZip, Zip(SetToBag({<<"a.py">>, <<"old.py">>}))} :
           arch = [tree |-> t, zip |-> z, replaced |-> NoZip,
                   phase |-> "idle", runs |-> 0]

\* upload_plugin line 98 calls the archiver
CreateZip ==
    /\ arch.phase = "idle"
    /\ arch.runs < MaxRuns
    /\ arch' = [arch EXCEPT
                   !.zip = zip_entries(arch.tree, directory, arch.zip),
                   !.replaced = arch.zip,
                   !.phase = "built",
                   !.runs = @ + 1]
    /\ UNCHANGED <<program, store>>

\* upload_plugin lines 107-110: os.remove deletes the archive, or fails
RemoveZip ==
    /\ arch.phase = "built"
    /\ \E z \in {NoZip, arch.zip} :
           arch' = [arch EXCEPT !.zip = z, !.phase = "idle"]
    /\ UNCHANGED <<program, store>>

\* between two runs a developer adds or deletes one file or directory
EditTree ==
    /\ arch.phase = "idle"
    /\ arch.runs \in 1..(MaxRuns - 1)
    /\ \E t \in Trees :
         /\ Cardinality(Nodes(t) \ Nodes(arch.tree))
              + Cardinality(Nodes(arch.tree) \ Nodes(t)) = 1
         /\ arch' = [arch EXCEPT !.tree = t]
    /\ UNCHANGED <<program, store>>

ArchNext == CreateZip \/ RemoveZip \/ EditTree

ArchSpec == ArchInit /\ [][ArchNext]_vars

\* ================================================================ claims
\* the step sequences of an upload_plugin call that ran to its end
CompleteCycles ==
    { <<"zip", x, r, "log_reloaded">> :
        x \in {"ftp", "sftp", "log_invalid_method"},
        r \in {"remove", "remove_failed"} }

IsPrefix(s, c) == Len(s) <= Len(c) /\ s = SubSeq(c, 1, Len(s))

\* no upload cycle is in progress on any thread
AllIdle == \A t \in Runners : ~InProgress(t)

\* ---------------------------------------------------------------- C1
\* C1: in auto mode, once the exit keyword has been entered at the listener
\* (stop_event is set), the watcher eventually reaches Stopped: the
\* subscription's worker has ended, start_watcher has returned and the main
\* flow has ended.  (The claim's other trigger, an external interrupt, sets
\* nothing the watcher reads: see Interrupt.)
C1_WatcherEventuallyStops ==
    stop_event
        ~> (/\ watcherPc = "done"
            /\ obsState # "running"
            /\ mainPc \in {"done", "interrupted"})

\* ---------------------------------------------------------------- C2
\* C2: every invocation of upload_plugin performs its steps in one fixed
\* order and runs to completion: archive, at most one transport, the attempt
\* to delete the scratch archive, the completion log; none is skipped or
\* repeated.
C2_FixedOrderToCompletion ==
    \A t \in Runners :
        /\ \E c \in CompleteCycles : IsPrefix(up[t].steps, c)
        /\ (count.started[t] > 0 /\ ~InProgress(t))
               => up[t].steps \in CompleteCycles

\* ---------------------------------------------------------------- C3
\* C3: a transport failure at any step, FTP or SFTP, is caught and logged
\* inside the transport and never raises to upload_plugin; after the failed
\* transport returns, upload_plugin still attempts to delete the scratch
\* archive and still logs completion.
C3_TransportFailureContained ==
    \A t \in Runners :
        LET x == up[t].xfer
        IN  (x.method \in {"ftp", "sftp"} /\ x.outcome # "ok") =>
              /\ ~x.raised
              /\ Last(x.ops) = "log_error"
              /\ up[t].pc \in {"remove", "log", "idle"}
              /\ up[t].pc = "remove" => up[t].steps = <<"zip", x.method>>
              /\ up[t].pc = "log" =>
                    \E r \in {"remove", "remove_failed"} :
                        up[t].steps = <<"zip", x.method, r>>
              /\ up[t].pc = "idle" =>
                    \E r \in {"remove", "remove_failed"} :
                        up[t].steps = <<"zip", x.method, r, "log_reloaded">>

\* a cycle whose FTP login failed has ended with the scratch file deleted
C3_Witness ==
    \E t \in Runners :
        /\ up[t].xfer.method = "ftp"
        /\ up[t].xfer.outcome = "login"
        /\ up[t].pc = "idle"
        /\ up[t].steps = <<"zip", "ftp", "remove", "log_reloaded">>
        /\ scratch = "absent"

\* ---------------------------------------------------------------- C4
\* C4: no error in an upload cycle (archiving, transport, scratch-file
\* deletion) aborts the watch loop or the manual command loop.
C4_NoErrorAbortsTheLoops ==
    /\ mainPc # "crashed"
    /\ obsState # "dead"
    /\ \A t \in Runners : up[t].pc # "aborted"

\* ---------------------------------------------------------------- C5
\* C5 as claimed: whenever no upload cycle is in progress, no scratch
\* archive file exists.
C5_NoScratchWhenIdle == AllIdle => scratch = "absent"

\* C5 as amended: the archive is built fresh at the start of a cycle and is
\* there, complete, during the upload attempt; its deletion is attempted
\* after the attempt whatever its outcome; and when no cycle is in progress
\* a scratch file exists only if the last cycle's deletion failed or the
\* last cycle was aborted by an archiving error.
C5_ScratchLeftOnlyByFailure ==
    /\ \A t \in Runners :
           /\ up[t].pc \in {"dispatch", "remove"} => scratch = "complete"
           /\ (up[t].pc \in {"log", "idle"} /\ up[t].steps # <<>>) =>
                 /\ Len(up[t].steps) >= 3
                 /\ up[t].steps[3] \in {"remove", "remove_failed"}
                 /\ up[t].steps[3] = "remove" => scratch = "absent"
    /\ (AllIdle /\ scratch # "absent") =>
           \E t \in Runners :
               /\ count.started[t] > 0
               /\ \/ up[t].pc = "aborted"
                  \/ up[t].pc = "idle" /\ up[t].steps[3] = "remove_failed"

\* a cycle with a failed transfer has ended, its deletion failed, and the
\* archive is still at the scratch path
C5_Witness ==
    /\ AllIdle
    /\ scratch = "complete"
    /\ \E t \in Runners :
           /\ up[t].pc = "idle"
           /\ up[t].xfer.outcome = "stor"
           /\ up[t].steps = <<"zip", "ftp", "remove_failed", "log_reloaded">>


\* ---------------------------------------------------------------- C6
\* two upload cycles are in progress at the same time
Overlap == \E t1, t2 \in Runners : t1 # t2 /\ InProgress(t1) /\ InProgress(t2)

\* a second trigger has arrived while a cycle is in progress
TriggerDuringCycle ==
    \E t \in Runners :
        /\ InProgress(t)
        /\ obsQueue # <<>>
        /\ HandlerUploads(Head(obsQueue))

\* a cycle was ended by an exception
Aborted == \E t \in Runners : up[t].pc = "aborted"

\* C6 as claimed: two triggers in quick succession run two cycles
\* concurrently: after a trigger has arrived while a cycle is in progress, a
\* state is reached in which two cycles are in progress at the same time on
\* the same scratch path (unless an exception has ended a cycle first).
C6_TriggersOverlap == TriggerDuringCycle ~> (Overlap \/ Aborted)

\* C6 as amended: at most one cycle is in progress at any time of a run (the
\* only caller in auto mode is the observer's worker, the only caller in
\* manual mode is the main flow), so between a cycle's archiving and its
\* deletion step no other cycle touches the scratch file; a trigger that
\* arrives during a cycle waits in the observer's queue.
C6_AtMostOneCycle ==
    /\ ~Overlap
    /\ ~(count.started["main"] > 0 /\ count.started["observer"] > 0)
    /\ \A t \in Runners :
           InProgress(t) =>
               /\ count.started[t] = count.completed[t] + 1
               /\ up[t].pc \in {"dispatch", "remove"} => scratch = "complete"

\* a qualifying event waits in the queue while the cycle of an earlier one
\* is in its upload attempt
C6_Witness ==
    /\ TriggerDuringCycle
    /\ up["observer"].pc = "dispatch"
    /\ count.completed["observer"] = 1

\* ---------------------------------------------------------------- C7
\* C7: the two modes are mutually exclusive and fixed by the auto-upload
\* flag: with the flag off the program enters the manual command loop and
\* never starts the watcher, a subscription or the exit listener; with the
\* flag on it starts them and never enters the manual command loop.
C7_ModesExclusive ==
    /\ ~config.auto_upload =>
           /\ mainPc \in {"start", "prompt", "upload", "done", "crashed"}
           /\ watcherPc = "unstarted"
           /\ listenerPc = "unstarted"
           /\ obsState = "none"
           /\ obsQueue = <<>>
           /\ ~stop_event
           /\ count.started["observer"] = 0
    /\ config.auto_upload =>
           /\ mainPc \in {"start", "start_watcher", "start_listener",
                          "join_exit", "join_watcher", "done", "interrupted"}
           /\ count.started["main"] = 0
           /\ count.invalid = 0
           /\ up["main"] = IdleRunner
           /\ mainPc \in {"join_exit", "join_watcher", "done"} =>
                  watcherPc # "unstarted" /\ listenerPc # "unstarted"

\* manual mode has run a cycle and left its loop
C7_Witness ==
    /\ ~config.auto_upload
    /\ mainPc = "done"
    /\ count.completed["main"] = 1

\* ---------------------------------------------------------------- C8
\* the events the claim names as triggering
Qualifies(e) ==
    /\ e.event_type = "modified"
    /\ ~e.is_directory
    /\ e.src_path \in {"plugin.py", "new.py", "pkg.py"}

\* C8: while the watcher is Watching, an event triggers a cycle if and only
\* if it is a modification event, not a directory event, of a file whose
\* name ends in .py; such an event starts exactly one cycle and every other
\* event starts none, and cycles of the observer start in no other way.
C8_EventFilter ==
    [][ /\ (obsQueue # <<>> /\ obsQueue' = Tail(obsQueue)) =>
              IF Qualifies(Head(obsQueue))
              THEN /\ count'.started["observer"] = count.started["observer"] + 1
                   /\ up["observer"].pc = "idle"
                   /\ up'["observer"].pc = "zip"
              ELSE /\ count'.started = count.started
                   /\ up' = up
        /\ count'.started["observer"] # count.started["observer"] =>
              /\ obsState = "running"
              /\ obsQueue # <<>>
              /\ obsQueue' = Tail(obsQueue)
              /\ Qualifies(Head(obsQueue)) ]_vars

\* three events were handled: the first two started no cycle, the third
\* started one
C8_Witness ==
    /\ count.events = 3
    /\ obsQueue = <<>>
    /\ count.started["observer"] = 1
    /\ up["observer"].pc = "zip"

\* ---------------------------------------------------------------- C9
UploadKeywords == {"upload", "UpLoad"}
ExitKeywords == {"exit", "EXIT"}

\* C9: in manual mode each upload keyword runs exactly one cycle, which has
\* completed at the next prompt; each unrecognized line is reported and
\* prompted again without a cycle; the first exit keyword ends the loop, and
\* then no line is read and no cycle runs.
C9_ManualLoop ==
    /\ [][ (mainPc = "prompt" /\ count'.inputs = count.inputs + 1) =>
              CASE lastCmd' \in UploadKeywords ->
                     /\ mainPc' = "upload"
                     /\ up'["main"].pc = "zip"
                     /\ count'.started["main"] = count.started["main"] + 1
                     /\ count'.invalid = count.invalid
                [] lastCmd' \in ExitKeywords ->
                     /\ mainPc' = "done"
                     /\ up' = up
                     /\ count'.started = count.started
                     /\ count'.invalid = count.invalid
                [] OTHER ->
                     /\ mainPc' = "prompt"
                     /\ up' = up
                     /\ count'.started = count.started
                     /\ count'.invalid = count.invalid + 1 ]_vars
    /\ [][ (~config.auto_upload /\ mainPc = "done") =>
              (mainPc' = "done" /\ count' = count /\ up' = up) ]_vars
    /\ [](  (~config.auto_upload /\ mainPc = "prompt") =>
              /\ ~InProgress("main")
              /\ count.completed["main"] = count.started["main"]
              /\ count.started["main"] + count.invalid = count.inputs )

\* the lines UpLoad, uploads, EXIT: one cycle, one report, the loop left
C9_Witness ==
    /\ ~config.auto_upload
    /\ mainPc = "done"
    /\ lastCmd = "EXIT"
    /\ count.inputs = 3
    /\ count.completed["main"] = 1
    /\ count.invalid = 1

\* --------------------------------------------------------------- C10
\* the transport calls among the steps of a cycle
RECURSIVE TransportCalls(_)
TransportCalls(s) ==
    IF s = <<>> THEN 0
    ELSE (IF Head(s) \in {"ftp", "sftp"} THEN 1 ELSE 0) + TransportCalls(Tail(s))

\* C10: upload_plugin invokes at most one transport per cycle: FTP only when
\* the method is ftp, SFTP only when it is sftp; for any other value it logs
\* an error and invokes no transport, and still performs the scratch-file
\* deletion and the completion log.
C10_OneTransportByMethod ==
    \A t \in Runners :
        /\ TransportCalls(up[t].steps) <= 1
        /\ Len(up[t].steps) >= 2 =>
              /\ up[t].steps[2] = "ftp" <=> config.upload_method = "ftp"
              /\ up[t].steps[2] = "sftp" <=> config.upload_method = "sftp"
              /\ up[t].steps[2] = "log_invalid_method"
                     <=> config.upload_method \notin {"ftp", "sftp"}
              /\ up[t].xfer.method =
                     (IF up[t].steps[2] = "log_invalid_method" THEN "none"
                      ELSE up[t].steps[2])
        /\ (config.upload_method \notin {"ftp", "sftp"} /\ up[t].steps # <<>>) =>
              /\ up[t].xfer = NoXfer
              /\ up[t].pc \in {"dispatch", "remove", "log", "idle"}
              /\ up[t].pc = "idle" =>
                    \E r \in {"remove", "remove_failed"} :
                        up[t].steps =
                            <<"zip", "log_invalid_method", r, "log_reloaded">>

\* a cycle under method "FTP" ended: no transport, file deleted, completion
\* logged
C10_Witness ==
    /\ config.upload_method = "FTP"
    /\ scratch = "absent"
    /\ \E t \in Runners :
           /\ up[t].pc = "idle"
           /\ up[t].steps = <<"zip", "log_invalid_method", "remove", "log_reloaded">>


\* --------------------------------------------------------------- C11
\* the protocol traces of upload_ftp the claim allows
FtpTraces ==
    { <<"connect", "log_error">>,
      <<"connect", "login", "close", "log_error">>,
      <<"connect", "login", "cwd", "close", "log_error">>,
      <<"connect", "login", "cwd", "stor", "close", "log_error">>,
      <<"connect", "login", "cwd", "stor", "close", "log_info">> }

\* C11: an FTP upload performs its steps only in the order connect, login,
\* cwd, STOR, a step runs only if every earlier one succeeded, and on every
\* path the connection it opened is closed when upload_ftp returns.
C11_FtpOrderAndClose ==
    \A t \in Runners :
        LET x == up[t].xfer
        IN  x.method = "ftp" =>
              /\ x.ops \in FtpTraces
              /\ ~x.transport_open
              /\ Last(x.ops) = "log_info" <=> x.outcome = "ok"
              /\ x.outcome # "ok" => ~Has(x.ops, "stor") \/ x.outcome = "stor"
              /\ x.outcome = "login" => ~Has(x.ops, "cwd")
              /\ x.outcome = "connect" => ~Has(x.ops, "login")

\* an FTP upload whose directory change failed has returned: no STOR was
\* sent and the connection was closed
C11_Witness ==
    \E t \in Runners :
        /\ up[t].pc = "remove"
        /\ up[t].xfer.outcome = "cwd"
        /\ up[t].xfer.ops = <<"connect", "login", "cwd", "close", "log_error">>

\* --------------------------------------------------------------- C12
\* C12: after upload_sftp returns, on the success path and on every failure
\* path, no SFTP session and no transport opened by the call remains open.
C12_SftpClosesWhatItOpens ==
    \A t \in Runners :
        up[t].xfer.method = "sftp" =>
            /\ ~up[t].xfer.transport_open
            /\ ~up[t].xfer.session_open

\* --------------------------------------------------------------- C13
\* the authentication steps among the operations of a call
AuthSteps(ops) ==
    { ops[i] : i \in { j \in 1..Len(ops) :
                         ops[j] \in {"load_key", "auth_key", "auth_password"} } }

\* the authentication methods a call attempted
AuthMethods(ops) ==
    { IF a = "auth_password" THEN "password" ELSE "key" : a \in AuthSteps(ops) }

\* C13 as claimed: every call of upload_sftp attempts exactly one
\* authentication method: the private key if and only if a key file is
\* configured, otherwise the password.
C13_ExactlyOneAuthMethod ==
    \A t \in Runners :
        up[t].xfer.method = "sftp" =>
            AuthMethods(up[t].xfer.ops) =
                (IF config.private_key_file \in {None, ""}
                 THEN {"password"} ELSE {"key"})

\* C13 as amended: a call whose connection to the host was opened attempts
\* exactly one authentication method, the private key if and only if a key
\* file is configured (present and non-empty), otherwise the password; a
\* failed key is not followed by the password; a call whose connection
\* fails attempts none.
C13_OneAuthMethodOnceConnected ==
    \A t \in Runners :
        LET x == up[t].xfer
        IN  x.method = "sftp" =>
              /\ x.outcome = "transport" => AuthMethods(x.ops) = {}
              /\ x.outcome # "transport" =>
                    AuthMethods(x.ops) =
                        (IF config.private_key_file \in {None, ""}
                         THEN {"password"} ELSE {"key"})
              /\ Has(x.ops, "load_key") => ~Has(x.ops, "auth_password")

\* a call with a key file configured whose key authentication failed has
\* returned without a password attempt
C13_Witness ==
    \E t \in Runners :
        /\ config.private_key_file = "/path/to/private/key"
        /\ up[t].xfer.outcome = "auth_key"
        /\ up[t].xfer.ops = <<"transport", "load_key", "auth_key", "log_error">>
        /\ up[t].pc = "log"


\* --------------------------------------------------------------- C14
\* the default configuration the claim documents, and its stored form
DocumentedDefaults ==
    [plugin_name |-> [kind |-> "str", text |-> "your_plugin_name.zip"],
     auto_upload |-> [kind |-> "bool", text |-> "True"],
     upload_method |-> [kind |-> "str", text |-> "ftp"],
     ftp_port |-> [kind |-> "int", text |-> "21"]]

PersistedDefaults ==
    [plugin_name |-> "\"your_plugin_name.zip\"", auto_upload |-> "true",
     upload_method |-> "\"ftp\"", ftp_port |-> "21"]

\* C14: loading when no file exists writes the default configuration
\* (auto-upload on, FTP selected, placeholders) and returns it, the stored
\* content equals what was returned, and a following load returns the same
\* configuration without writing again.
C14_DefaultsCreatedOnce ==
    (~store.initial.exists /\ store.returned # <<>>) =>
        /\ ~store.raised
        /\ store.writes = 1
        /\ store.file = [exists |-> TRUE, valid |-> TRUE,
                         text |-> PersistedDefaults]
        /\ \A i \in 1..Len(store.returned) :
               store.returned[i] = DocumentedDefaults

\* two loads were made on a file that did not exist
C14_Witness ==
    /\ ~store.initial.exists
    /\ ~store.raised
    /\ Len(store.returned) = 2
    /\ store.writes = 1

\* --------------------------------------------------------------- C15
\* C15: loading when a valid file exists returns exactly its contents (no
\* key added from the defaults, none removed or changed) and leaves the file
\* unchanged, so every further load returns the same.
C15_StoredConfigRoundTrip ==
    (store.initial.exists /\ store.initial.valid) =>
        /\ ~store.raised
        /\ store.writes = 0
        /\ store.file = store.initial
        /\ \A i \in 1..Len(store.returned) :
               /\ DOMAIN store.returned[i] = DOMAIN store.origin
               /\ \A k \in DOMAIN store.origin :
                      store.returned[i][k] = store.origin[k]
        /\ \A k \in DOMAIN store.origin :
               /\ store.origin[k].kind = "bool" =>
                      store.file.text[k] \in {"true", "false"}
               /\ store.origin[k].kind = "str" =>
                      store.file.text[k] = "\"" \o store.origin[k].text \o "\""
        /\ DOMAIN store.file.text = DOMAIN store.origin

\* a stored document with one key, the string "true", was loaded twice
C15_Witness ==
    /\ store.initial.exists
    /\ store.writes = 0
    /\ Len(store.returned) = 2
    /\ DOMAIN store.origin = {"upload_method"}
    /\ store.origin["upload_method"] = [kind |-> "str", text |-> "true"]
    /\ store.returned[2] = store.origin


\* --------------------------------------------------------------- C16
\* the names an archive of tree t must hold: the path of every file of t
\* below the source directory, without the source directory's own name
ExpectedEntries(t) == {SubSeq(f, 2, Len(f)) : f \in t.files}

\* C16: the archive just built holds exactly one entry per file found under
\* the source directory at any depth, named by the file's path relative to the
\* source directory; no directory has an entry, and nothing of the content
\* that was at the output path before remains.
C16_ArchiveIsExactlyTheFiles ==
    arch # NoArch /\ arch.phase = "built" =>
        /\ arch.zip.exists
        /\ BagToSet(arch.zip.entries) = ExpectedEntries(arch.tree)
        /\ \A e \in BagToSet(arch.zip.entries) :
               CopiesIn(e, arch.zip.entries) = 1
        /\ BagCardinality(arch.zip.entries) = Cardinality(arch.tree.files)
        /\ \A d \in arch.tree.dirs :
               ~BagIn(SubSeq(d, 2, Len(d)), arch.zip.entries)

\* an archive was built over a stale one that named a file the tree no longer
\* has and one it still has, from a tree with files at three depths and a
\* directory holding no file
C16_Witness ==
    /\ arch # NoArch
    /\ arch.phase = "built"
    /\ arch.replaced.exists
    /\ BagIn(<<"a.py">>, arch.replaced.entries)
    /\ BagToSet(arch.replaced.entries) \ ExpectedEntries(arch.tree) # {}
    /\ {<<"plugin", "a.py">>, <<"plugin", "pkg", "sub", "a.py">>}
           \subseteq arch.tree.files
    /\ <<"plugin", "empty">> \in arch.tree.dirs


\* --------------------------------------------------------------- C17
\* C17: cycles triggered by file-change events are serialized: a cycle of
\* the observer starts only when no cycle of the observer is in progress and
\* every cycle started before has completed, and while a cycle is in
\* progress no event is taken from the observer's queue (events may only be
\* added to it).
C17_WatcherCyclesSerialized ==
    [][/\ count'.started["observer"] # count.started["observer"] =>
            /\ ~InProgress("observer")
            /\ count.completed["observer"] = count.started["observer"]
            /\ count'.started["observer"] = count.started["observer"] + 1
       /\ InProgress("observer") =>
            \/ obsQueue' = obsQueue
            \/ \E e \in FsEvents : obsQueue' = Append(obsQueue, e)]_vars

\* a second cycle of the observer is at its deletion step while a qualifying
\* event, arrived in the meantime, waits in the queue
C17_Witness ==
    /\ up["observer"].pc = "remove"
    /\ count.completed["observer"] = 1
    /\ obsQueue # <<>>
    /\ HandlerUploads(Head(obsQueue))

\* --------------------------------------------------------------- C18
\* C18: stop_event starts unset, is set exactly by the steps in which the
\* listener reads the exit keyword (in any letter case) and by no other
\* step, is never cleared once set, and the listener reads no further input
\* after setting it.
C18_StopEventIsLatch ==
    /\ ~stop_event
    /\ [](stop_event <=> listenerPc = "done")
    /\ [][/\ stop_event => stop_event'
          /\ (~stop_event /\ stop_event') =>
                /\ listenerPc = "input"
                /\ count'.inputs = count.inputs + 1
                /\ lastCmd' \in ExitKeywords
          /\ (listenerPc = "input" /\ count'.inputs = count.inputs + 1
                /\ lastCmd' \in ExitKeywords) => stop_event'
          /\ listenerPc = "done" => count'.inputs = count.inputs]_vars

\* the listener read other input, then EXIT, and the signal is set while the
\* observer still has an event queued
C18_Witness ==
    /\ stop_event
    /\ lastCmd = "EXIT"
    /\ count.inputs >= 2
    /\ obsQueue # <<>>

\* --------------------------------------------------------------- C19
\* C19: once the poll loop has seen stop_event (start_watcher is past the
\* loop) and nothing is left from before (no event queued, no cycle in
\* progress), no cycle is ever started again: the number of cycles the
\* observer has started stays what it was.
C19_NoCycleAfterStop ==
    \A n \in 0..MaxEvents :
        []((/\ watcherPc \in {"join", "done"}
            /\ obsQueue = <<>>
            /\ ~InProgress("observer")
            /\ count.started["observer"] = n)
           => [](count.started["observer"] = n))

\* --------------------------------------------------------------- C20
\* qualifying events waiting in the observer's queue
QualifyingQueued ==
    Cardinality({i \in 1..Len(obsQueue) : HandlerUploads(obsQueue[i])})

\* C20: every qualifying event handed to the observer while it is Watching
\* eventually gets its own complete cycle: when the cycles started so far and
\* the qualifying events still queued add up to k, eventually k cycles have
\* completed.
C20_EveryEventGetsItsCycle ==
    \A k \in 1..MaxEvents :
        (obsState = "running"
            /\ count.started["observer"] + QualifyingQueued = k)
        ~> (count.completed["observer"] >= k)

====
